---- MODULE Spec2Model ----
(***************************************************************************)
(* Model of embedding-service/main.py: a FastAPI service that loads one    *)
(* SentenceTransformer at startup and serves /health, /embed,              *)
(* /embed/batch, /similarity and /.                                        *)
(*                                                                         *)
(* Every handler is an `async def` without an await, so a handler runs to  *)
(* completion on the event loop: one action per handler and one for the    *)
(* delivery of its response.  load_model is split at its three effects     *)
(* (device choice, construction, warm-up).  processing_time_ms is          *)
(* wall-clock time and is left out of the responses.  An embedding is kept *)
(* as the sentence it embeds and its length; a dot product is kept         *)
(* symbolic.                                                               *)
(***************************************************************************)
EXTENDS Integers, Sequences, FiniteSets, TLC

\* ---------------------------------------------------------------- bounds
\* Batches up to this length are enumerated exhaustively over Texts.
MaxShortBatch == 2
\* An inference failure is injected at forward passes 1..MaxFaultPass and at the
\* last forward pass of an encode call.
MaxFaultPass == 2
\* MAX_BATCH_SIZE is drawn from 1..MaxCfgBatch and the default.
MaxCfgBatch == 2

\* ------------------------------------------------------ program constants
EMBEDDING_DIMENSION == 1024
MaxTextsPerBatch == 100
DefaultMaxBatchSize == 32
DefaultModelName == "BAAI/bge-large-en-v1.5"

\* ------------------------------------------------------------ input sets
\* Optional values are sequences of length 0 (None) or 1.
None == << >>
Some(x) == << x >>

Texts == {"cats", "dogs", ""}
Instructions == {None, Some(""), Some("retrieve")}
FailureMsgs == {"CUDA out of memory", "index out of range in self"}

\* Values of EMBEDDING_MODEL and the output width of each model.
ModelNames == {DefaultModelName, "BAAI/bge-small-en-v1.5"}
ModelDimOf(name) == IF name = DefaultModelName THEN 1024 ELSE 384

MaxBatchSizes == (1..MaxCfgBatch) \cup {DefaultMaxBatchSize}

Min(a, b) == IF a < b THEN a ELSE b

RECURSIVE SeqsUpTo(_, _)
SeqsUpTo(S, n) ==
    IF n = 0 THEN {<< >>}
    ELSE LET shorter == SeqsUpTo(S, n - 1)
         IN shorter \cup {Append(s, x) : s \in {q \in shorter : Len(q) = n - 1}, x \in S}

\* A long batch alternates the two texts so that positions are told apart.
LongBatch(n) == [i \in 1..n |-> IF i % 2 = 1 THEN "cats" ELSE "dogs"]
LongLens == {MaxTextsPerBatch - 1, MaxTextsPerBatch, MaxTextsPerBatch + 1}
Batches == SeqsUpTo(Texts, MaxShortBatch) \cup {LongBatch(n) : n \in LongLens}

VARIABLES
    MODEL_NAME,        \* os.getenv("EMBEDDING_MODEL", ...)
    MAX_BATCH_SIZE,    \* int(os.getenv("MAX_BATCH_SIZE", "32"))
    cuda_available,    \* torch.cuda.is_available()
    mps_available,     \* torch.backends.mps.is_available()
    lifespan_on,       \* whether the host runs the app's lifespan
    pc,                \* position of the process
    device,            \* load_model's local `device`
    model,             \* the global model handle, None or Some(handle)
    warmed,            \* the warm-up encode of load_model has returned
    request,           \* the request handled last, None or Some(request)
    responses,         \* the responses delivered for that request
    calls              \* the model.encode calls made for that request

config == << MODEL_NAME, MAX_BATCH_SIZE, cuda_available, mps_available, lifespan_on >>
vars == << MODEL_NAME, MAX_BATCH_SIZE, cuda_available, mps_available, lifespan_on,
           pc, device, model, warmed, request, responses, calls >>

Init ==
    /\ MODEL_NAME \in ModelNames
    /\ MAX_BATCH_SIZE \in MaxBatchSizes
    /\ cuda_available \in BOOLEAN
    /\ mps_available \in BOOLEAN
    /\ lifespan_on \in BOOLEAN
    /\ pc = "boot"
    /\ device = "unset"
    /\ model = None
    /\ warmed = FALSE
    /\ request = None
    /\ responses = << >>
    /\ calls = << >>

\* ------------------------------------------------------------ exceptions
HTTPException(status_code, detail) ==
    [type |-> "HTTPException", status_code |-> status_code, detail |-> detail]
RuntimeError(msg) == [type |-> "RuntimeError", msg |-> msg]

\* str(e): starlette's HTTPException prints "<status_code>: <detail>", any
\* other exception prints its message.
Str(e) ==
    IF e.type = "HTTPException"
    THEN ToString(e.status_code) \o ": " \o e.detail
    ELSE e.msg

\* Outcome of a function call: a returned value or a raised exception, with the
\* model.encode calls made on the way.
Return(v, cs) == [raised |-> FALSE, value |-> v, calls |-> cs]
Raise(e, cs) == [raised |-> TRUE, exc |-> e, calls |-> cs]

\* What the caller receives when a handler raises HTTPException.
Deliver(e) == [status_code |-> e.status_code, kind |-> "error", detail |-> e.detail]

\* --------------------------------------------------------- the model handle
\* SentenceTransformer(MODEL_NAME, device=device)
Handle(name, dev) == [name |-> name, device |-> dev]

\* The device priority chain of load_model.
SelectDevice ==
    IF cuda_available THEN "cuda"
    ELSE IF mps_available THEN "mps"
    ELSE "cpu"

\* The embedding the model h computes for one sentence: what it is an embedding
\* of, its length, and whether it was L2-normalized.
Embedding(h, sentence, normalize) ==
    [of |-> sentence, len |-> ModelDimOf(h.name), normalized |-> normalize]

\* Number of forward passes of an encode of n sentences in sub-batches of bs.
NumPasses(n, bs) == (n + bs - 1) \div bs

\* The sub-batches of an encode: consecutive slices of bs sentences, the last one
\* shorter when bs does not divide the number of sentences.
Chunks(sentences, bs) ==
    [i \in 1..NumPasses(Len(sentences), bs) |->
        SubSeq(sentences, (i - 1) * bs + 1, Min(i * bs, Len(sentences)))]

\* The concatenation of the sub-batches' results; all but the last have the
\* length of the first.
Flatten(ss) ==
    IF ss = << >> THEN << >>
    ELSE LET bs == Len(ss[1])
             n == (Len(ss) - 1) * bs + Len(ss[Len(ss)])
         IN [i \in 1..n |-> ss[((i - 1) \div bs) + 1][((i - 1) % bs) + 1]]

\* model.encode(sentences, batch_size=..., normalize_embeddings=...): the
\* sentences go through the model in sub-batches of at most batch_size, one
\* forward pass each; the embeddings come back in input order.  fault = 0: no
\* pass fails; fault = k > 0: pass k raises msg and nothing is returned.
\* The call is recorded with the sizes of the passes it started and its error.
\* A call without batch_size (batch_size = None) is a call on one sentence and
\* needs one pass.
ModelEncode(h, sentences, batch_size, normalize, fault, msg) ==
    LET bs == IF batch_size = None THEN Len(sentences) ELSE batch_size[1]
        chunks == Chunks(sentences, bs)
        failed == fault \in 1..Len(chunks)
        done == IF failed THEN fault ELSE Len(chunks)
        call == [sentences |-> sentences,
                 batch_size |-> batch_size,
                 normalize |-> normalize,
                 error |-> IF failed THEN Some(msg) ELSE None,
                 passes |-> [i \in 1..done |-> Len(chunks[i])]]
    IN IF failed
       THEN Raise(RuntimeError(msg), << call >>)
       ELSE Return(Flatten([i \in 1..Len(chunks) |->
                              [j \in 1..Len(chunks[i]) |->
                                 Embedding(h, chunks[i][j], normalize)]]),
                   << call >>)

\* ---------------------------------------------------------- text preparation
\* Python truthiness of an Optional[str]: None and "" are falsy.
Truthy(instruction) == instruction # None /\ instruction[1] # ""

\* f"{instruction}: {text}"
Prefixed(instruction, text) == instruction \o ": " \o text

\* get_embedding, `if instruction:`
PrepareOne(text, instruction) ==
    IF Truthy(instruction) THEN Prefixed(instruction[1], text) ELSE text

\* Mutant: `if instruction is not None:`, the empty string is prefixed too.
PrepareAll_Mut(texts, instruction) ==
    IF instruction # None
    THEN [i \in 1..Len(texts) |-> Prefixed(instruction[1], texts[i])]
    ELSE texts

\* get_embeddings_batch, `if instruction:`
PrepareAll(texts, instruction) ==
    IF Truthy(instruction)
    THEN [i \in 1..Len(texts) |-> Prefixed(instruction[1], texts[i])]
    ELSE texts

\* Mutant: the sub-batch size is not capped.
BatchSizeArg_Mut(n) == n

\* batch_size=min(len(texts), MAX_BATCH_SIZE)
BatchSizeArg(n) == Min(n, MAX_BATCH_SIZE)

\* --------------------------------------------------------- embedding invoker
get_embedding(text, instruction, fault, msg) ==
    IF model = None
    THEN Raise(HTTPException(503, "Model not loaded"), << >>)
    ELSE LET r == ModelEncode(model[1], << PrepareOne(text, instruction) >>,
                              None, TRUE, fault, msg)
         IN IF r.raised THEN r ELSE Return(r.value[1], r.calls)

get_embeddings_batch(texts, instruction, fault, msg) ==
    IF model = None
    THEN Raise(HTTPException(503, "Model not loaded"), << >>)
    ELSE ModelEncode(model[1], PrepareAll(texts, instruction),
                     Some(BatchSizeArg(Len(texts))), TRUE, fault, msg)

\* ------------------------------------------------------------------ handlers
\* A handler's result: the responses the caller receives and the encode calls.
Result(rs, cs) == [responses |-> rs, calls |-> cs]

\* Mutant: the failure's description is dropped.
InternalError_Mut(e) == HTTPException(500, "Internal Server Error")

\* except Exception as e: raise HTTPException(status_code=500, detail=str(e))
InternalError(e) == HTTPException(500, Str(e))

\* Mutant: the status does not look at the handle.
health_check_Mut ==
    Result(<< [status_code |-> 200, kind |-> "HealthResponse",
               status |-> "healthy",
               model |-> MODEL_NAME,
               dimension |-> EMBEDDING_DIMENSION,
               device |-> IF model # None THEN model[1].device ELSE "unknown",
               gpu_available |-> cuda_available,
               gpu_name |-> None] >>, << >>)

health_check ==
    LET dev == IF model # None THEN model[1].device ELSE "unknown"
        gpu_name == IF model # None /\ cuda_available THEN Some("gpu0") ELSE None
    IN Result(<< [status_code |-> 200, kind |-> "HealthResponse",
                  status |-> IF model # None THEN "healthy" ELSE "loading",
                  model |-> MODEL_NAME,
                  dimension |-> EMBEDDING_DIMENSION,
                  device |-> dev,
                  gpu_available |-> cuda_available,
                  gpu_name |-> gpu_name] >>, << >>)

embed_text(text, instruction, fault, msg) ==
    LET r == get_embedding(text, instruction, fault, msg)
    IN IF r.raised
       THEN Result(<< Deliver(InternalError(r.exc)) >>, r.calls)
       ELSE Result(<< [status_code |-> 200, kind |-> "EmbedResponse",
                       embedding |-> r.value,
                       dimension |-> r.value.len,
                       model |-> MODEL_NAME] >>, r.calls)

\* Mutant: the upper bound is off by one.
TooMany_Mut(texts) == Len(texts) >= MaxTextsPerBatch

\* len(request.texts) > 100
TooMany(texts) == Len(texts) > MaxTextsPerBatch

embed_batch(texts, instruction, fault, msg) ==
    IF Len(texts) = 0
    THEN Result(<< Deliver(HTTPException(400, "texts list cannot be empty")) >>, << >>)
    ELSE IF TooMany(texts)
    THEN Result(<< Deliver(HTTPException(400, "Maximum 100 texts per batch")) >>, << >>)
    ELSE LET r == get_embeddings_batch(texts, instruction, fault, msg)
         IN IF r.raised
            THEN Result(<< Deliver(InternalError(r.exc)) >>, r.calls)
            ELSE Result(<< [status_code |-> 200, kind |-> "EmbedBatchResponse",
                            embeddings |-> r.value,
                            dimension |-> EMBEDDING_DIMENSION,
                            count |-> Len(r.value),
                            model |-> MODEL_NAME] >>, r.calls)

\* float(np.dot(a, b)), kept symbolic.
Dot(a, b) == [op |-> "dot", left |-> a, right |-> b]

\* Mutant: two single-text calls of get_embedding instead of one batch call.
compute_similarity_Mut(text1, text2, fault, msg) ==
    LET r1 == get_embedding(text1, None, fault, msg)
        r2 == get_embedding(text2, None, 0, msg)
    IN IF r1.raised
       THEN Result(<< Deliver(InternalError(r1.exc)) >>, r1.calls)
       ELSE Result(<< [status_code |-> 200, kind |-> "SimilarityResponse",
                       similarity |-> Dot(r1.value, r2.value)] >>,
                   r1.calls \o r2.calls)

compute_similarity(text1, text2, fault, msg) ==
    LET r == get_embeddings_batch(<< text1, text2 >>, None, fault, msg)
    IN IF r.raised
       THEN Result(<< Deliver(InternalError(r.exc)) >>, r.calls)
       ELSE Result(<< [status_code |-> 200, kind |-> "SimilarityResponse",
                       similarity |-> Dot(r.value[1], r.value[2])] >>, r.calls)

root ==
    Result(<< [status_code |-> 200, kind |-> "root",
               service |-> "Accordo Embedding Service",
               model |-> MODEL_NAME,
               dimension |-> EMBEDDING_DIMENSION] >>, << >>)

\* ------------------------------------------------------------------- startup
\* The host enters the lifespan, which calls load_model().
Lifespan_Startup ==
    /\ pc = "boot"
    /\ lifespan_on
    /\ pc' = "select_device"
    /\ UNCHANGED << config, device, model, warmed, request, responses, calls >>

LoadModel_SelectDevice ==
    /\ pc = "select_device"
    /\ device' = SelectDevice
    /\ pc' = "construct"
    /\ UNCHANGED << config, model, warmed, request, responses, calls >>

\* model = SentenceTransformer(MODEL_NAME, device=device); the constructor may
\* raise (unknown model, no weights, device error), and then the global keeps
\* its value and the exception leaves load_model and the lifespan.
LoadModel_Construct(ok) ==
    /\ pc = "construct"
    /\ IF ok
       THEN /\ model' = Some(Handle(MODEL_NAME, device))
            /\ pc' = "warm_up"
       ELSE /\ model' = model
            /\ pc' = "startup_failed"
    /\ UNCHANGED << config, device, warmed, request, responses, calls >>

\* Mutant: a failure of the warm-up call is swallowed and load_model returns.
LoadModel_WarmUp_Mut(fault, msg) ==
    /\ pc = "warm_up"
    /\ LET r == ModelEncode(model[1], << "warm up" >>, None, FALSE, fault, msg)
       IN warmed' = (warmed \/ ~r.raised)
    /\ pc' = "loaded"
    /\ UNCHANGED << config, device, model, request, responses, calls >>

\* _ = model.encode("warm up", convert_to_numpy=True); a failure leaves
\* load_model and the lifespan as an exception.
LoadModel_WarmUp(fault, msg) ==
    /\ pc = "warm_up"
    /\ LET r == ModelEncode(model[1], << "warm up" >>, None, FALSE, fault, msg)
       IN IF r.raised
          THEN /\ warmed' = warmed
               /\ pc' = "startup_failed"
          ELSE /\ warmed' = TRUE
               /\ pc' = "loaded"
    /\ UNCHANGED << config, device, model, request, responses, calls >>

\* load_model returns, the lifespan yields, the host starts to serve.
Lifespan_Yield ==
    /\ pc = "loaded"
    /\ pc' = "serving"
    /\ UNCHANGED << config, device, model, warmed, request, responses, calls >>

\* A host that does not run the lifespan serves the app as imported.
Serve_WithoutLifespan ==
    /\ pc = "boot"
    /\ ~lifespan_on
    /\ pc' = "serving"
    /\ UNCHANGED << config, device, model, warmed, request, responses, calls >>

Shutdown ==
    /\ pc = "serving"
    /\ request = None
    /\ pc' = "stopped"
    /\ UNCHANGED << config, device, model, warmed, request, responses, calls >>

\* ------------------------------------------------------------------ requests
\* The forward passes at which a failure is injected into an encode call of
\* `passes` forward passes; 0 is no failure.
FaultPoints(passes) ==
    IF model = None THEN {0}
    ELSE {0} \cup {k \in 1..passes : k <= MaxFaultPass \/ k = passes}

\* The event loop runs one handler at a time (no handler awaits): a request is
\* taken when no other is in progress.
Handled(r, result) ==
    /\ request = None
    /\ request' = Some(r)
    /\ responses' = result.responses
    /\ calls' = result.calls
    /\ UNCHANGED << config, pc, device, model, warmed >>

\* The response is sent and the handler's frame is dropped.
Respond ==
    /\ pc = "serving"
    /\ request # None
    /\ request' = None
    /\ responses' = << >>
    /\ calls' = << >>
    /\ UNCHANGED << config, pc, device, model, warmed >>

Health ==
    /\ pc = "serving"
    /\ Handled([endpoint |-> "/health"], health_check)

Root ==
    /\ pc = "serving"
    /\ Handled([endpoint |-> "/"], root)

\* Mutant: the handler drops the global handle when inference fails.
Embed_Mut(text, instruction, fault, msg) ==
    /\ pc = "serving"
    /\ request = None
    /\ LET result == embed_text(text, instruction, fault, msg)
       IN /\ request' = Some([endpoint |-> "/embed", text |-> text,
                              instruction |-> instruction])
          /\ responses' = result.responses
          /\ calls' = result.calls
          /\ model' = IF result.responses[1].status_code = 500 THEN None ELSE model
    /\ UNCHANGED << config, pc, device, warmed >>

Embed(text, instruction, fault, msg) ==
    /\ pc = "serving"
    /\ Handled([endpoint |-> "/embed", text |-> text, instruction |-> instruction],
               embed_text(text, instruction, fault, msg))

EmbedBatch(texts, instruction, fault, msg) ==
    /\ pc = "serving"
    /\ Handled([endpoint |-> "/embed/batch", texts |-> texts,
                instruction |-> instruction],
               embed_batch(texts, instruction, fault, msg))

Similarity(text1, text2, fault, msg) ==
    /\ pc = "serving"
    /\ Handled([endpoint |-> "/similarity", text1 |-> text1, text2 |-> text2],
               compute_similarity(text1, text2, fault, msg))

Next ==
    \/ Lifespan_Startup
    \/ LoadModel_SelectDevice
    \/ \E ok \in BOOLEAN : LoadModel_Construct(ok)
    \/ \E fault \in {0, 1}, msg \in FailureMsgs : LoadModel_WarmUp(fault, msg)
    \/ Lifespan_Yield
    \/ Serve_WithoutLifespan
    \/ Shutdown
    \/ Respond
    \/ Health
    \/ Root
    \/ \E text \in Texts, instruction \in Instructions, msg \in FailureMsgs :
         \E fault \in FaultPoints(1) : Embed(text, instruction, fault, msg)
    \/ \E texts \in Batches, instruction \in Instructions, msg \in FailureMsgs :
         \E fault \in FaultPoints(IF Len(texts) \in 1..MaxTextsPerBatch
                                  THEN NumPasses(Len(texts), BatchSizeArg(Len(texts)))
                                  ELSE 0) :
            EmbedBatch(texts, instruction, fault, msg)
    \/ \E text1 \in Texts, text2 \in Texts, msg \in FailureMsgs :
         \E fault \in FaultPoints(NumPasses(2, BatchSizeArg(2))) :
            Similarity(text1, text2, fault, msg)

Spec == Init /\ [][Next]_vars

\* ===================================================================== claims
InferenceEndpoints == {"/embed", "/embed/batch", "/similarity"}
req == request[1]
resp == responses[1]
IsError(r) == DOMAIN r = {"status_code", "kind", "detail"} /\ r.kind = "error"
InferenceFailed == \E i \in 1..Len(calls) : calls[i].error # None
\* The request passes the size validation of its endpoint.
PassesValidation ==
    req.endpoint = "/embed/batch" => Len(req.texts) \in 1..MaxTextsPerBatch

\* C1: an inference request handled while the model handle is None is answered
\* with status 503 and the detail "Model not loaded".
C1_NotLoadedIs503 ==
    (/\ request # None
     /\ req.endpoint \in InferenceEndpoints
     /\ PassesValidation
     /\ model = None)
    => /\ Len(responses) = 1
       /\ resp.status_code = 503
       /\ resp.detail = "Model not loaded"

\* C2: /embed/batch answers 400 without calling the model for 0 texts and for
\* more than 100 texts, in every model state; 1..100 texts pass validation and
\* give a success response when the model is loaded and inference does not fail.
C2_BatchSizeValidation ==
    (request # None /\ req.endpoint = "/embed/batch")
    => LET n == Len(req.texts)
       IN /\ Len(responses) = 1
          /\ (n = 0 \/ n > 100) => (resp.status_code = 400 /\ calls = << >>)
          /\ (n >= 1 /\ n <= 100) =>
                /\ resp.status_code # 400
                /\ (model # None /\ ~InferenceFailed) => resp.status_code = 200

C2_Witness ==
    /\ request # None
    /\ req.endpoint = "/embed/batch"
    /\ Len(req.texts) = 100
    /\ resp.status_code = 200

\* C3: an inference failure gives exactly one response, a 500 whose detail is
\* the failure's description, with no payload, after a single call of the model.
C3_InferenceFailure ==
    (request # None /\ InferenceFailed)
    => /\ Len(responses) = 1
       /\ IsError(resp)
       /\ resp.status_code = 500
       /\ Len(calls) = 1
       /\ resp.detail = calls[1].error[1]

\* A batch of 100 whose second or later forward pass fails.
C3_Witness ==
    /\ request # None
    /\ req.endpoint = "/embed/batch"
    /\ Len(req.texts) = 100
    /\ InferenceFailed
    /\ Len(calls[1].passes) >= 2

\* The text the rule of section 4.2 prepares when every instruction string counts
\* as present.
PreparedAsClaimed(text, instruction) ==
    IF instruction # None THEN instruction[1] \o ": " \o text ELSE text

\* The text the code prepares: None and the empty string leave the text as it is.
PreparedAsAmended(text, instruction) ==
    IF instruction # None /\ instruction[1] # ""
    THEN instruction[1] \o ": " \o text
    ELSE text

\* C4: a successful /embed/batch of n texts returns n embeddings and count n,
\* the i-th being the model's embedding of the i-th prepared text, equal to the
\* result of one pass over the whole batch, and no forward pass is handed more
\* than MAX_BATCH_SIZE texts.
C4_BatchAligned ==
    (request # None /\ req.endpoint = "/embed/batch" /\ resp.status_code = 200)
    => LET n == Len(req.texts)
           sent == [i \in 1..n |-> PreparedAsAmended(req.texts[i], req.instruction)]
       IN /\ Len(resp.embeddings) = n
          /\ resp.count = n
          /\ \A i \in 1..n : resp.embeddings[i] = Embedding(model[1], sent[i], TRUE)
          /\ resp.embeddings = ModelEncode(model[1], sent, Some(n), TRUE, 0, "").value
          /\ Len(calls) = 1
          /\ calls[1].batch_size # None
          /\ calls[1].batch_size[1] \in 1..MAX_BATCH_SIZE
          /\ \A k \in 1..Len(calls[1].passes) : calls[1].passes[k] <= MAX_BATCH_SIZE

\* 100 texts under the default MAX_BATCH_SIZE: passes of 32, 32, 32 and 4.
C4_Witness ==
    /\ request # None
    /\ req.endpoint = "/embed/batch"
    /\ resp.status_code = 200
    /\ Len(req.texts) = 100
    /\ MAX_BATCH_SIZE = DefaultMaxBatchSize
    /\ calls[1].passes = << 32, 32, 32, 4 >>

\* The texts of the request, one for /embed, in request order.
RequestTexts == IF req.endpoint = "/embed" THEN << req.text >> ELSE req.texts

EmbedCalled ==
    /\ request # None
    /\ req.endpoint \in {"/embed", "/embed/batch"}
    /\ calls # << >>

\* C5 as claimed: with an instruction string s, every string included, the
\* model is sent s, ": " and the text; without an instruction, the text.
C5_Original ==
    EmbedCalled =>
        calls[1].sentences = [i \in 1..Len(RequestTexts) |->
                                PreparedAsClaimed(RequestTexts[i], req.instruction)]

\* C5 as amended: with a non-empty instruction string s the model is sent s,
\* ": " and the text, for every element of a batch; with no instruction or the
\* empty string it is sent the text unchanged.
C5_Amended ==
    EmbedCalled =>
        calls[1].sentences = [i \in 1..Len(RequestTexts) |->
                                PreparedAsAmended(RequestTexts[i], req.instruction)]

C5_Witness ==
    /\ EmbedCalled
    /\ req.endpoint = "/embed/batch"
    /\ req.instruction = Some("retrieve")
    /\ Len(req.texts) = 2
    /\ calls[1].sentences = << "retrieve: cats", "retrieve: dogs" >>

\* C6 as claimed: a successful /similarity made two encode calls, one on text1
\* alone and one on text2 alone, without a prefix.
C6_Original ==
    (request # None /\ req.endpoint = "/similarity" /\ resp.status_code = 200)
    => /\ Len(calls) = 2
       /\ calls[1].sentences = << req.text1 >>
       /\ calls[2].sentences = << req.text2 >>

\* C6 as amended: a successful /similarity made one encode call on the batch
\* <<text1, text2>>, without a prefix, with batch size min(2, MAX_BATCH_SIZE), and
\* answers the dot product of the embedding of text1 and the embedding of text2.
C6_Amended ==
    (request # None /\ req.endpoint = "/similarity" /\ resp.status_code = 200)
    => /\ Len(calls) = 1
       /\ calls[1].sentences = << req.text1, req.text2 >>
       /\ calls[1].batch_size = Some(Min(2, MAX_BATCH_SIZE))
       /\ resp.similarity = Dot(Embedding(model[1], req.text1, TRUE),
                                Embedding(model[1], req.text2, TRUE))

C6_Witness ==
    /\ request # None
    /\ req.endpoint = "/similarity"
    /\ resp.status_code = 200
    /\ req.text1 # req.text2
    /\ Len(calls) = 1

\* C7: /health answers 200 with status "loading" while the handle is None and
\* "healthy" once it is set, then with the device the model was loaded onto; the
\* dimension is 1024 in both cases.
C7_Health ==
    (request # None /\ req.endpoint = "/health")
    => /\ Len(responses) = 1
       /\ resp.status_code = 200
       /\ resp.dimension = 1024
       /\ model = None => resp.status = "loading"
       /\ model # None => (resp.status = "healthy" /\ resp.device = device)

C7_Witness ==
    /\ request # None
    /\ req.endpoint = "/health"
    /\ resp.status = "healthy"
    /\ resp.device = "mps"

\* C8: a success response of /embed or /embed/batch has dimension 1024, equal to
\* the length of every embedding in it, whatever model is configured.
C8_Dimension ==
    (request # None /\ req.endpoint \in {"/embed", "/embed/batch"}
       /\ resp.status_code = 200)
    => /\ resp.dimension = 1024
       /\ IF req.endpoint = "/embed"
          THEN resp.embedding.len = resp.dimension
          ELSE \A i \in 1..Len(resp.embeddings) :
                  resp.embeddings[i].len = resp.dimension

\* C9: no inference request succeeds and /health never says "healthy" unless
\* the model was constructed and the warm-up call returned; no state is both
\* serving and holding a handle that was not warmed up.
C9_StartupGate ==
    /\ (request # None /\ req.endpoint \in InferenceEndpoints
          /\ resp.status_code = 200) => (model # None /\ warmed)
    /\ (request # None /\ req.endpoint = "/health" /\ resp.status = "healthy")
          => (model # None /\ warmed)
    /\ (pc = "serving" /\ model # None) => warmed
    /\ pc = "startup_failed" => request = None

C9_Witness ==
    /\ pc = "serving"
    /\ warmed
    /\ request # None
    /\ req.endpoint \in InferenceEndpoints
    /\ resp.status_code = 200

\* C10: the handle is written once, by load_model's constructor call; a set
\* handle never changes and no step of a serving process changes it.
C10_ModelWriteOnce ==
    [][/\ model # None => model' = model
       /\ model' # model => pc = "construct"
       /\ pc = "serving" => model' = model]_vars

\* A loaded service that has answered an inference request with an error.
C10_Witness ==
    /\ model # None
    /\ request # None
    /\ req.endpoint \in InferenceEndpoints
    /\ resp.status_code = 500

====
